---- MODULE Spec2Model ----
(***************************************************************************)
(* Model of TraineeService (src/src/application/services/                  *)
(* trainee_service.py) running against in-memory stores that implement     *)
(* the repository ports ITraineeTechnologyStateRepository and              *)
(* ILearningSessionLogRepository.                                          *)
(*                                                                         *)
(* A service call is a coroutine: it runs atomically from one awaited      *)
(* repository call to the next, so every repository call is one step of    *)
(* the model and the steps of different calls interleave.                  *)
(***************************************************************************)
EXTENDS Integers, FiniteSets, TLC

\* ------------------------------------------------------------------ bounds

\* Number of call slots: how many service calls can be in flight at once.
MaxCalls == 2
\* Number of session logs that can ever be created (uuid4 values handed out).
MaxLogs == 2
\* The clock runs over 0..MaxTime.
MaxTime == 2
\* The question counts of a review submission run up to MaxQuestions.
MaxQuestions == 2

\* ------------------------------------------------------------ domain values

Trainees == {"t1", "t2"}
\* The users who ask for a dashboard: the trainees and one who has no task card.
Viewers == Trainees \cup {"t3"}
Technologies == {"py", "go"}
Calls == 1..MaxCalls

\* LearningState, models.py
PLANNED == "planned"
IN_PROGRESS == "in_progress"
READY_FOR_REVIEW == "ready_for_review"
REVIEW_SCHEDULED == "review_scheduled"
APPROVED == "approved"
CANCELLED == "cancelled"
LearningState ==
    {PLANNED, IN_PROGRESS, READY_FOR_REVIEW, REVIEW_SCHEDULED, APPROVED, CANCELLED}

\* An Optional[record] is the empty set (Python's None) or a one-element set.
None == {}
Some(x) == {x}
The(opt) == CHOOSE x \in opt : TRUE
\* "datetime | None": the end_time of a session that is still open.
NoTime == -1
\* An unset name or outcome in the frame of a call.
NoValue == "None"

\* The task cards a store can hold: one per (trainee, technology) pair, the
\* pair standing for the card's UUID. Trainee t2 has no card for "go".
CardIds == {<<"t1", "py">>, <<"t1", "go">>, <<"t2", "py">>}

\* TraineeTechnologyState, a frozen record.
TraineeTechnologyState(id, state) ==
    [id |-> id, trainee_id |-> id[1], technology_id |-> id[2],
     mentor_id |-> "m1", state |-> state, added_at |-> 0,
     scheduled_review_at |-> NoTime]

\* LearningSessionLog, a frozen record.
LearningSessionLog(id, state_id, start_time, end_time) ==
    [id |-> id, trainee_technology_state_id |-> state_id,
     start_time |-> start_time, end_time |-> end_time]

\* The outcomes of a call: a returned task card, or the exception raised.
OK == "ok"
LearningSessionAlreadyInProgressError == "LearningSessionAlreadyInProgressError"
TraineeTechnologyStateNotFoundError == "TraineeTechnologyStateNotFoundError"
InvalidLearningStateTransitionError == "InvalidLearningStateTransitionError"
NoActiveLearningSessionError == "NoActiveLearningSessionError"
\* Declared by the exceptions module; no statement of the service raises it.
TechnologyAlreadyApprovedError == "TechnologyAlreadyApprovedError"
\* pydantic's error for a MentorSubmitReviewDTO that is not valid.
ValidationError == "ValidationError"
\* An exception of the store itself, propagated unchanged by the service.
RepositoryError == "RepositoryError"

\* ------------------------------------------------------------------- state

VARIABLES
    cards,        \* task card store: CardIds -> Optional[TraineeTechnologyState]
    logs,         \* session log store: a set of LearningSessionLog
    now,          \* datetime.now(timezone.utc)
    next_log_id,  \* the next value uuid4() hands out
    calls,        \* the service calls: Calls -> the frame of the coroutine
    successes     \* the caller's tally of the calls that returned a task card

vars == <<cards, logs, now, next_log_id, calls, successes>>

\* The frame of a call that is not running.
IdleCall ==
    [op |-> NoValue, pc |-> "idle",
     trainee_id |-> NoValue, technology_id |-> NoValue,
     active_session |-> None, tech_state |-> None,
     updated_tech_state |-> None, log |-> None,
     result |-> NoValue, from_state |-> NoValue, to_state |-> NoValue,
     dashboard |-> {}, questions_asked |-> None, questions_correct |-> None,
     pre_cards |-> [id \in CardIds |-> None], pre_logs |-> {}, pre_now |-> 0,
     overlap |-> {}, observe |-> FALSE]

\* A call is in flight from its first repository call to its last.
InFlight(c) == calls[c].pc \notin {"idle", "done"}

\* ------------------------------------------------------------ repositories

\* Mutant: the lookup falls back to another task card of the trainee.
find_by_trainee_and_technology_AnyOfTrainee(store, trainee_id, technology_id) ==
    IF <<trainee_id, technology_id>> \in CardIds
       /\ store[<<trainee_id, technology_id>>] # None
    THEN store[<<trainee_id, technology_id>>]
    ELSE IF \E id \in CardIds : id[1] = trainee_id /\ store[id] # None
    THEN store[CHOOSE id \in CardIds : id[1] = trainee_id /\ store[id] # None]
    ELSE None

\* ITraineeTechnologyStateRepository.find_by_trainee_and_technology
find_by_trainee_and_technology(store, trainee_id, technology_id) ==
    IF <<trainee_id, technology_id>> \in CardIds
    THEN store[<<trainee_id, technology_id>>]
    ELSE None

\* ITraineeTechnologyStateRepository.update: replaces the record with state.id
state_repo_update(store, state) == [store EXCEPT ![state.id] = Some(state)]

\* Mutant: the listing does not filter by trainee.
list_by_trainee_id_Unfiltered(store, trainee_id) ==
    {The(store[id]) : id \in {i \in CardIds : store[i] # None}}

\* ITraineeTechnologyStateRepository.list_by_trainee_id (a list, in no
\* specified order: its set of records)
list_by_trainee_id(store, trainee_id) ==
    {The(store[id]) :
        id \in {i \in CardIds : /\ store[i] # None
                                /\ The(store[i]).trainee_id = trainee_id}}

\* Mutant: the open logs are looked up without regard to the trainee.
OpenLogsOf_AnyTrainee(logstore, trainee_id) ==
    {l \in logstore : l.end_time = NoTime}

\* The open (end_time = None) session logs of a trainee, over all task cards.
OpenLogsOf(logstore, trainee_id) ==
    {l \in logstore : /\ l.end_time = NoTime
                      /\ l.trainee_technology_state_id[1] = trainee_id}

\* ILearningSessionLogRepository.find_active_session_by_trainee_id: the open
\* log of the trainee, any one of them when the store holds several, or None.
find_active_session_by_trainee_id(logstore, trainee_id) ==
    IF OpenLogsOf(logstore, trainee_id) = {}
    THEN {None}
    ELSE {Some(l) : l \in OpenLogsOf(logstore, trainee_id)}

\* ILearningSessionLogRepository.add
log_repo_add(logstore, session_log) == logstore \cup {session_log}

\* Mutant: the update inserts the record beside the one it should replace.
log_repo_update_Inserts(logstore, session_log) == logstore \cup {session_log}

\* ILearningSessionLogRepository.update: replaces the record with the log's id
log_repo_update(logstore, session_log) ==
    {l \in logstore : l.id # session_log.id} \cup
    (IF \E l \in logstore : l.id = session_log.id THEN {session_log} ELSE {})

\* ILearningSessionLogRepository.list_for_state
list_for_state(logstore, state_id) ==
    {l \in logstore : l.trainee_technology_state_id = state_id}

\* ------------------------------------------------------------ construction

\* The states a task card is created in by the rest of the system. A card is
\* IN_PROGRESS only through start_learning_technology, which also opens its log.
InitialCardStates ==
    {PLANNED, READY_FOR_REVIEW, REVIEW_SCHEDULED, APPROVED, CANCELLED}

\* The stores at the start: the card of ("t1", "py") is in any of these states
\* or does not exist yet; the other two cards are newly PLANNED.
Init ==
    /\ \E s \in InitialCardStates \cup {NoValue} :
          cards = [id \in CardIds |->
                      IF id # <<"t1", "py">>
                      THEN Some(TraineeTechnologyState(id, PLANNED))
                      ELSE IF s = NoValue THEN None
                      ELSE Some(TraineeTechnologyState(id, s))]
    /\ logs = {}
    /\ now = 0
    /\ next_log_id = 1
    /\ calls = [c \in Calls |-> IdleCall]
    /\ successes = [id \in CardIds |-> [start |-> 0, stop |-> 0]]

\* The frame of a call at its invocation: its arguments and the calls that are
\* in flight. A caller that makes its calls one at a time also records
\* (observe) what the stores hold at that moment.
Invoked(op, trainee_id, technology_id, observe) ==
    [IdleCall EXCEPT !.op = op, !.trainee_id = trainee_id,
                     !.technology_id = technology_id,
                     !.pre_cards = IF observe THEN cards ELSE @,
                     !.pre_logs = IF observe THEN logs ELSE @,
                     !.pre_now = IF observe THEN now ELSE @,
                     !.overlap = {d \in Calls : InFlight(d)},
                     !.observe = observe]

\* The tally after the call of this frame has returned its updated task card:
\* a caller that observes counts the successful start and stop calls per card.
Counted(frame, op) ==
    IF frame.observe
    THEN [successes EXCEPT ![The(frame.updated_tech_state).id][op] = @ + 1]
    ELSE successes

\* The frame of a call that is over: its locals are gone, what is left is what
\* the caller sees, besides what was recorded at the invocation.
Finished(frame) ==
    [frame EXCEPT !.pc = "done", !.active_session = None, !.tech_state = None,
                  !.updated_tech_state = None, !.log = None]

\* A call that raises: the exception is its outcome.
Raise(frame, error) == [Finished(frame) EXCEPT !.result = error]

\* A call that returns the updated task card.
ReturnState(frame, state) ==
    [Finished(frame) EXCEPT !.result = OK, !.updated_tech_state = state]

\* uuid4() values are not exhausted by the starts already past their checks.
CanStart ==
    next_log_id + Cardinality({d \in Calls : calls[d].pc = "start_find_state"})
        <= MaxLogs

\* ------------------------------------------- start_learning_technology

\* Mutant: a start is allowed from PLANNED only.
StartAllowedStates_PlannedOnly == {PLANNED}

\* Mutant: a start is also allowed from REVIEW_SCHEDULED.
StartAllowedStates_WithScheduled ==
    {PLANNED, READY_FOR_REVIEW, REVIEW_SCHEDULED}

\* 3. allowed_states
\* Mutant: a start is also accepted on a terminal card.
StartAllowedStates_WithTerminal ==
    {PLANNED, READY_FOR_REVIEW, APPROVED, CANCELLED}

StartAllowedStates == {PLANNED, READY_FOR_REVIEW}

\* Mutant: only an active session of the requested task card is a conflict.
StartCheckActive_SameCardOnly(frame, active_session) ==
    IF /\ active_session # None
       /\ The(active_session).trainee_technology_state_id
              = <<frame.trainee_id, frame.technology_id>>
    THEN Raise(frame, LearningSessionAlreadyInProgressError)
    ELSE [frame EXCEPT !.active_session = active_session,
                       !.pc = "start_find_state"]

\* Mutant: an active session is no obstacle to a start.
StartCheckActive_NoConflictCheck(frame, active_session) ==
    [frame EXCEPT !.active_session = active_session,
                  !.pc = "start_find_state"]

\* 1. Check for any other active session.
StartCheckActive(frame, active_session) ==
    IF active_session # None
    THEN Raise(frame, LearningSessionAlreadyInProgressError)
    ELSE [frame EXCEPT !.active_session = active_session,
                       !.pc = "start_find_state"]

\* Mutant: the updated task card is built anew, with the current time as its
\* added_at.
StartCheckState_ResetsAddedAt(frame, tech_state, log_id, time) ==
    IF tech_state = None
    THEN Raise(frame, TraineeTechnologyStateNotFoundError)
    ELSE IF The(tech_state).state \notin StartAllowedStates
    THEN [Raise(frame, InvalidLearningStateTransitionError)
            EXCEPT !.from_state = The(tech_state).state,
                   !.to_state = IN_PROGRESS]
    ELSE [frame EXCEPT
            !.tech_state = tech_state,
            !.updated_tech_state =
                Some([The(tech_state) EXCEPT !.state = IN_PROGRESS,
                                             !.added_at = time]),
            !.log = Some(LearningSessionLog(log_id, The(tech_state).id,
                                            time, NoTime)),
            !.pc = "start_add_log"]

\* Mutant: the new log gets the epoch as its start_time, not the current
\* time.
StartCheckState_StartTimeEpoch(frame, tech_state, log_id, time) ==
    IF tech_state = None
    THEN Raise(frame, TraineeTechnologyStateNotFoundError)
    ELSE IF The(tech_state).state \notin StartAllowedStates
    THEN [Raise(frame, InvalidLearningStateTransitionError)
            EXCEPT !.from_state = The(tech_state).state,
                   !.to_state = IN_PROGRESS]
    ELSE [frame EXCEPT
            !.tech_state = tech_state,
            !.updated_tech_state =
                Some([The(tech_state) EXCEPT !.state = IN_PROGRESS]),
            !.log = Some(LearningSessionLog(log_id, The(tech_state).id,
                                            0, NoTime)),
            !.pc = "start_add_log"]

\* 2.-5. The target state is looked up and validated; the new state and the
\* new log are built.
StartCheckState(frame, tech_state, log_id, time) ==
    IF tech_state = None
    THEN Raise(frame, TraineeTechnologyStateNotFoundError)
    ELSE IF The(tech_state).state \notin StartAllowedStates
    THEN [Raise(frame, InvalidLearningStateTransitionError)
            EXCEPT !.from_state = The(tech_state).state,
                   !.to_state = IN_PROGRESS]
    ELSE [frame EXCEPT
            !.tech_state = tech_state,
            !.updated_tech_state =
                Some([The(tech_state) EXCEPT !.state = IN_PROGRESS]),
            !.log = Some(LearningSessionLog(log_id, The(tech_state).id,
                                            time, NoTime)),
            !.pc = "start_add_log"]

\* The call is made and runs to the answer of find_active_session_by_trainee_id.
StartFindActive(c, trainee_id, technology_id, observe) ==
    /\ calls[c].pc = "idle"
    /\ CanStart
    /\ \E active_session \in find_active_session_by_trainee_id(logs, trainee_id) :
          calls' = [calls EXCEPT ![c] =
                       StartCheckActive(Invoked("start", trainee_id, technology_id,
                                                observe),
                                        active_session)]
    /\ UNCHANGED <<cards, logs, now, next_log_id, successes>>

\* Mutant: the new log is persisted as soon as the task card is found, before
\* the state of the card is validated.
StartFindState_LogBeforeCheck(c) ==
    /\ calls[c].pc = "start_find_state"
    /\ LET tech_state == find_by_trainee_and_technology(
                             cards, calls[c].trainee_id, calls[c].technology_id)
           frame == StartCheckState(calls[c], tech_state, next_log_id, now)
       IN /\ calls' = [calls EXCEPT ![c] = frame]
          /\ next_log_id' = IF frame.pc = "start_add_log"
                            THEN next_log_id + 1 ELSE next_log_id
          /\ logs' = IF tech_state = None
                     THEN logs
                     ELSE log_repo_add(logs,
                              LearningSessionLog(next_log_id,
                                                 The(tech_state).id, now, NoTime))
    /\ UNCHANGED <<cards, now, successes>>

\* ... to the answer of find_by_trainee_and_technology.
StartFindState(c) ==
    /\ calls[c].pc = "start_find_state"
    /\ LET tech_state == find_by_trainee_and_technology(
                             cards, calls[c].trainee_id, calls[c].technology_id)
           frame == StartCheckState(calls[c], tech_state, next_log_id, now)
       IN /\ calls' = [calls EXCEPT ![c] = frame]
          /\ next_log_id' = IF frame.pc = "start_add_log"
                            THEN next_log_id + 1 ELSE next_log_id
    /\ UNCHANGED <<cards, logs, now, successes>>

\* 6. Persist changes: learning_session_log_repo.add(new_log)
StartAddLog(c) ==
    /\ calls[c].pc = "start_add_log"
    /\ logs' = log_repo_add(logs, The(calls[c].log))
    /\ calls' = [calls EXCEPT ![c].pc = "start_update_state"]
    /\ UNCHANGED <<cards, now, next_log_id, successes>>

\* 6. Persist changes: trainee_tech_state_repo.update(updated_tech_state)
StartUpdateState(c) ==
    /\ calls[c].pc = "start_update_state"
    /\ cards' = state_repo_update(cards, The(calls[c].updated_tech_state))
    /\ calls' = [calls EXCEPT ![c] =
                    ReturnState(calls[c], calls[c].updated_tech_state)]
    /\ successes' = Counted(calls[c], "start")
    /\ UNCHANGED <<logs, now, next_log_id>>

\* One of the two writes raises: nothing catches it, the call ends there.
StartWriteFails(c) ==
    /\ calls[c].pc \in {"start_add_log", "start_update_state"}
    /\ calls' = [calls EXCEPT ![c] = Raise(calls[c], RepositoryError)]
    /\ UNCHANGED <<cards, logs, now, next_log_id, successes>>

\* -------------------------------------------- stop_learning_technology

\* Mutant: the state of the task card is not validated.
StopCheckState_NoStateCheck(frame, tech_state) ==
    IF tech_state = None
    THEN Raise(frame, TraineeTechnologyStateNotFoundError)
    ELSE [frame EXCEPT !.tech_state = tech_state, !.pc = "stop_find_active"]

\* Mutant: the error of a refused stop names the target of a start.
StopCheckState_TargetOfStart(frame, tech_state) ==
    IF tech_state = None
    THEN Raise(frame, TraineeTechnologyStateNotFoundError)
    ELSE IF The(tech_state).state # IN_PROGRESS
    THEN [Raise(frame, InvalidLearningStateTransitionError)
            EXCEPT !.from_state = The(tech_state).state,
                   !.to_state = IN_PROGRESS]
    ELSE [frame EXCEPT !.tech_state = tech_state, !.pc = "stop_find_active"]

\* Mutant: a missing task card is reported as a missing session.
StopCheckState_MissingCardNoSession(frame, tech_state) ==
    IF tech_state = None
    THEN Raise(frame, NoActiveLearningSessionError)
    ELSE IF The(tech_state).state # IN_PROGRESS
    THEN [Raise(frame, InvalidLearningStateTransitionError)
            EXCEPT !.from_state = The(tech_state).state,
                   !.to_state = READY_FOR_REVIEW]
    ELSE [frame EXCEPT !.tech_state = tech_state, !.pc = "stop_find_active"]

\* 1.-2. The target state is looked up and validated.
StopCheckState(frame, tech_state) ==
    IF tech_state = None
    THEN Raise(frame, TraineeTechnologyStateNotFoundError)
    ELSE IF The(tech_state).state # IN_PROGRESS
    THEN [Raise(frame, InvalidLearningStateTransitionError)
            EXCEPT !.from_state = The(tech_state).state,
                   !.to_state = READY_FOR_REVIEW]
    ELSE [frame EXCEPT !.tech_state = tech_state, !.pc = "stop_find_active"]

\* Mutant: a stop without an active session returns the task card as it is.
StopCheckActive_NoSessionReturns(frame, active_session, time) ==
    IF active_session = None
    THEN ReturnState(frame, frame.tech_state)
    ELSE IF The(active_session).trainee_technology_state_id
                # The(frame.tech_state).id
    THEN Raise(frame, LearningSessionAlreadyInProgressError)
    ELSE [frame EXCEPT
            !.active_session = active_session,
            !.log = Some([The(active_session) EXCEPT !.end_time = time]),
            !.updated_tech_state =
                Some([The(frame.tech_state) EXCEPT !.state = READY_FOR_REVIEW]),
            !.pc = "stop_update_log"]

\* Mutant: the owner of the active session is not checked against the state.
StopCheckActive_NoOwnerCheck(frame, active_session, time) ==
    IF active_session = None
    THEN Raise(frame, NoActiveLearningSessionError)
    ELSE [frame EXCEPT
            !.active_session = active_session,
            !.log = Some([The(active_session) EXCEPT !.end_time = time]),
            !.updated_tech_state =
                Some([The(frame.tech_state) EXCEPT !.state = READY_FOR_REVIEW]),
            !.pc = "stop_update_log"]

\* Mutant: the closed log gets the epoch as its end_time, not the current
\* time.
StopCheckActive_EndTimeEpoch(frame, active_session, time) ==
    IF active_session = None
    THEN Raise(frame, NoActiveLearningSessionError)
    ELSE IF The(active_session).trainee_technology_state_id
                # The(frame.tech_state).id
    THEN Raise(frame, LearningSessionAlreadyInProgressError)
    ELSE [frame EXCEPT
            !.active_session = active_session,
            !.log = Some([The(active_session) EXCEPT !.end_time = 0]),
            !.updated_tech_state =
                Some([The(frame.tech_state) EXCEPT !.state = READY_FOR_REVIEW]),
            !.pc = "stop_update_log"]

\* Mutant: a stop puts the task card back to PLANNED.
StopCheckActive_BackToPlanned(frame, active_session, time) ==
    IF active_session = None
    THEN Raise(frame, NoActiveLearningSessionError)
    ELSE IF The(active_session).trainee_technology_state_id
                # The(frame.tech_state).id
    THEN Raise(frame, LearningSessionAlreadyInProgressError)
    ELSE [frame EXCEPT
            !.active_session = active_session,
            !.log = Some([The(active_session) EXCEPT !.end_time = time]),
            !.updated_tech_state =
                Some([The(frame.tech_state) EXCEPT !.state = PLANNED]),
            !.pc = "stop_update_log"]

\* 3.-6. The active session is looked up and checked against the state; the
\* closed log and the new state are built.
StopCheckActive(frame, active_session, time) ==
    IF active_session = None
    THEN Raise(frame, NoActiveLearningSessionError)
    ELSE IF The(active_session).trainee_technology_state_id
                # The(frame.tech_state).id
    THEN Raise(frame, LearningSessionAlreadyInProgressError)
    ELSE [frame EXCEPT
            !.active_session = active_session,
            !.log = Some([The(active_session) EXCEPT !.end_time = time]),
            !.updated_tech_state =
                Some([The(frame.tech_state) EXCEPT !.state = READY_FOR_REVIEW]),
            !.pc = "stop_update_log"]

\* The call is made and runs to the answer of find_by_trainee_and_technology.
StopFindState(c, trainee_id, technology_id, observe) ==
    /\ calls[c].pc = "idle"
    /\ calls' = [calls EXCEPT ![c] =
                    StopCheckState(
                        Invoked("stop", trainee_id, technology_id, observe),
                        find_by_trainee_and_technology(
                            cards, trainee_id, technology_id))]
    /\ UNCHANGED <<cards, logs, now, next_log_id, successes>>

\* ... to the answer of find_active_session_by_trainee_id.
StopFindActive(c) ==
    /\ calls[c].pc = "stop_find_active"
    /\ \E active_session \in
             find_active_session_by_trainee_id(logs, calls[c].trainee_id) :
          calls' = [calls EXCEPT ![c] =
                       StopCheckActive(calls[c], active_session, now)]
    /\ UNCHANGED <<cards, logs, now, next_log_id, successes>>

\* 7. Persist changes: learning_session_log_repo.update(updated_log)
StopUpdateLog(c) ==
    /\ calls[c].pc = "stop_update_log"
    /\ logs' = log_repo_update(logs, The(calls[c].log))
    /\ calls' = [calls EXCEPT ![c].pc = "stop_update_state"]
    /\ UNCHANGED <<cards, now, next_log_id, successes>>

\* 7. Persist changes: trainee_tech_state_repo.update(updated_tech_state)
StopUpdateState(c) ==
    /\ calls[c].pc = "stop_update_state"
    /\ cards' = state_repo_update(cards, The(calls[c].updated_tech_state))
    /\ calls' = [calls EXCEPT ![c] =
                    ReturnState(calls[c], calls[c].updated_tech_state)]
    /\ successes' = Counted(calls[c], "stop")
    /\ UNCHANGED <<logs, now, next_log_id>>

\* One of the two writes raises: nothing catches it, the call ends there.
StopWriteFails(c) ==
    /\ calls[c].pc \in {"stop_update_log", "stop_update_state"}
    /\ calls' = [calls EXCEPT ![c] = Raise(calls[c], RepositoryError)]
    /\ UNCHANGED <<cards, logs, now, next_log_id, successes>>

\* ------------------------------------------------- get_trainee_dashboard

\* The call is made and returns the answer of list_by_trainee_id.
GetTraineeDashboard(c, trainee_id, observe) ==
    /\ calls[c].pc = "idle"
    /\ calls' = [calls EXCEPT ![c] =
                    [Finished(Invoked("dashboard", trainee_id, NoValue, observe))
                        EXCEPT !.result = OK,
                               !.dashboard =
                                   list_by_trainee_id(cards, trainee_id)]]
    /\ UNCHANGED <<cards, logs, now, next_log_id, successes>>

\* --------------------------------------------------- MentorSubmitReviewDTO

\* The values of questions_asked and questions_correct a caller can pass:
\* None or an integer.
QuestionCounts == {None} \cup {Some(n) : n \in -1..MaxQuestions}

\* Field(ge=0) of questions_asked and questions_correct.
FieldsValid(questions_asked, questions_correct) ==
    /\ questions_asked # None => The(questions_asked) >= 0
    /\ questions_correct # None => The(questions_correct) >= 0

\* Mutant: equal counts are refused too.
validate_questions_RefusesEqual(questions_asked, questions_correct) ==
    IF /\ questions_asked # None
       /\ questions_correct # None
       /\ The(questions_correct) >= The(questions_asked)
    THEN ValidationError
    ELSE OK

\* MentorSubmitReviewDTO.validate_questions: the ValueError it raises reaches
\* the caller as pydantic's ValidationError.
validate_questions(questions_asked, questions_correct) ==
    IF /\ questions_asked # None
       /\ questions_correct # None
       /\ The(questions_correct) > The(questions_asked)
    THEN ValidationError
    ELSE OK

\* The DTO of a review submission is constructed: the fields are validated,
\* then the model validator runs.
MentorSubmitReviewDTO(c, questions_asked, questions_correct, observe) ==
    /\ calls[c].pc = "idle"
    /\ calls' = [calls EXCEPT ![c] =
                    [Finished(Invoked("submit_review_dto", NoValue, NoValue,
                                      observe))
                        EXCEPT !.questions_asked = questions_asked,
                               !.questions_correct = questions_correct,
                               !.result =
                                   IF FieldsValid(questions_asked,
                                                  questions_correct)
                                   THEN validate_questions(questions_asked,
                                                           questions_correct)
                                   ELSE ValidationError]]
    /\ UNCHANGED <<cards, logs, now, next_log_id, successes>>

\* ------------------------------------------------------------ environment

\* The caller takes the outcome of a finished call; the slot is free again.
Return(c) ==
    /\ calls[c].pc = "done"
    /\ calls' = [d \in Calls |->
                    IF d = c THEN IdleCall
                    ELSE [calls[d] EXCEPT !.overlap = @ \ {c}]]
    /\ UNCHANGED <<cards, logs, now, next_log_id, successes>>

\* Time passes.
Tick ==
    /\ now < MaxTime
    /\ now' = now + 1
    /\ UNCHANGED <<cards, logs, next_log_id, calls, successes>>

\* ---------------------------------------------------------- specifications

\* A new call runs in the first free slot (the slots are interchangeable).
FreeSlots == {c \in Calls : calls[c].pc = "idle"}
NewCall == CHOOSE c \in FreeSlots : \A d \in FreeSlots : c <= d

\* The trainee whose start and stop calls are followed, interleaved or one at a
\* time: the one who has two task cards. The calls of two trainees side by
\* side are those of SpecParallel.
Concurrent == {"t1"}

\* The calls of one trainee interleave at every repository call, and a write
\* of a store can fail.
Next ==
    \/ \E t \in Concurrent, tech \in Technologies :
          FreeSlots # {} /\ StartFindActive(NewCall, t, tech, FALSE)
    \/ \E c \in Calls : StartFindState(c)
    \/ \E c \in Calls : StartAddLog(c)
    \/ \E c \in Calls : StartUpdateState(c)
    \/ \E c \in Calls : StartWriteFails(c)
    \/ \E t \in Concurrent, tech \in Technologies :
          FreeSlots # {} /\ StopFindState(NewCall, t, tech, FALSE)
    \/ \E c \in Calls : StopFindActive(c)
    \/ \E c \in Calls : StopUpdateLog(c)
    \/ \E c \in Calls : StopUpdateState(c)
    \/ \E c \in Calls : StopWriteFails(c)
    \/ \E t \in Concurrent :
          FreeSlots # {} /\ GetTraineeDashboard(NewCall, t, FALSE)
    \/ \E c \in Calls : Return(c)
    \/ Tick

Spec == Init /\ [][Next]_vars

\* No call is running or waiting to be taken: the next call can be made.
Quiet == \A c \in Calls : calls[c].pc = "idle"

\* The calls are made one at a time, each after the outcome of the one before
\* has been taken, and a write of a store can fail.
NextFault ==
    \/ \E t \in Concurrent, tech \in Technologies :
          Quiet /\ StartFindActive(NewCall, t, tech, TRUE)
    \/ \E c \in Calls : StartFindState(c)
    \/ \E c \in Calls : StartAddLog(c)
    \/ \E c \in Calls : StartUpdateState(c)
    \/ \E c \in Calls : StartWriteFails(c)
    \/ \E t \in Concurrent, tech \in Technologies :
          Quiet /\ StopFindState(NewCall, t, tech, TRUE)
    \/ \E c \in Calls : StopFindActive(c)
    \/ \E c \in Calls : StopUpdateLog(c)
    \/ \E c \in Calls : StopUpdateState(c)
    \/ \E c \in Calls : StopWriteFails(c)
    \/ \E t \in Viewers : Quiet /\ GetTraineeDashboard(NewCall, t, TRUE)
    \/ \E c \in Calls : Return(c)
    \/ Quiet /\ Tick

SpecFault == Init /\ [][NextFault]_vars

\* The calls are made one at a time and no write fails.
NextSeq ==
    \/ \E t \in Concurrent, tech \in Technologies :
          Quiet /\ StartFindActive(NewCall, t, tech, TRUE)
    \/ \E c \in Calls : StartFindState(c)
    \/ \E c \in Calls : StartAddLog(c)
    \/ \E c \in Calls : StartUpdateState(c)
    \/ \E t \in Concurrent, tech \in Technologies :
          Quiet /\ StopFindState(NewCall, t, tech, TRUE)
    \/ \E c \in Calls : StopFindActive(c)
    \/ \E c \in Calls : StopUpdateLog(c)
    \/ \E c \in Calls : StopUpdateState(c)
    \/ \E t \in Viewers : Quiet /\ GetTraineeDashboard(NewCall, t, TRUE)
    \/ \E c \in Calls : Return(c)
    \/ Quiet /\ Tick

SpecSeq == Init /\ [][NextSeq]_vars

\* The calls are made one at a time, and between them review submissions are
\* constructed from every pair of question counts.
NextReview ==
    \/ \E t \in Concurrent, tech \in Technologies :
          Quiet /\ StartFindActive(NewCall, t, tech, TRUE)
    \/ \E c \in Calls : StartFindState(c)
    \/ \E c \in Calls : StartAddLog(c)
    \/ \E c \in Calls : StartUpdateState(c)
    \/ \E t \in Concurrent, tech \in Technologies :
          Quiet /\ StopFindState(NewCall, t, tech, TRUE)
    \/ \E c \in Calls : StopFindActive(c)
    \/ \E c \in Calls : StopUpdateLog(c)
    \/ \E c \in Calls : StopUpdateState(c)
    \/ \E questions_asked \in QuestionCounts,
          questions_correct \in QuestionCounts :
          Quiet /\ MentorSubmitReviewDTO(NewCall, questions_asked,
                                         questions_correct, TRUE)
    \/ \E c \in Calls : Return(c)
    \/ Quiet /\ Tick

SpecReview == Init /\ [][NextReview]_vars

\* The trainees whose calls run in parallel.
Parallel == {"t1", "t2"}

\* Trainee t has a call that is running or whose outcome is not yet taken.
Busy(t) == \E c \in Calls : calls[c].pc # "idle" /\ calls[c].trainee_id = t

\* Each trainee makes their calls one at a time, and the calls of the two
\* trainees interleave at every repository call. The clock, which no check of
\* the service reads, stands still.
NextParallel ==
    \/ \E t \in Parallel, tech \in Technologies :
          /\ ~Busy(t)
          /\ FreeSlots # {}
          /\ StartFindActive(NewCall, t, tech, TRUE)
    \/ \E c \in Calls : StartFindState(c)
    \/ \E c \in Calls : StartAddLog(c)
    \/ \E c \in Calls : StartUpdateState(c)
    \/ \E t \in Parallel, tech \in Technologies :
          /\ ~Busy(t)
          /\ FreeSlots # {}
          /\ StopFindState(NewCall, t, tech, TRUE)
    \/ \E c \in Calls : StopFindActive(c)
    \/ \E c \in Calls : StopUpdateLog(c)
    \/ \E c \in Calls : StopUpdateState(c)
    \/ \E c \in Calls : Return(c)

SpecParallel == Init /\ [][NextParallel]_vars

\* The calls of one trainee interleave at every repository call, and every
\* write of a store succeeds.
NextInterleaved ==
    \/ \E t \in Concurrent, tech \in Technologies :
          FreeSlots # {} /\ StartFindActive(NewCall, t, tech, FALSE)
    \/ \E c \in Calls : StartFindState(c)
    \/ \E c \in Calls : StartAddLog(c)
    \/ \E c \in Calls : StartUpdateState(c)
    \/ \E t \in Concurrent, tech \in Technologies :
          FreeSlots # {} /\ StopFindState(NewCall, t, tech, FALSE)
    \/ \E c \in Calls : StopFindActive(c)
    \/ \E c \in Calls : StopUpdateLog(c)
    \/ \E c \in Calls : StopUpdateState(c)
    \/ \E c \in Calls : Return(c)
    \/ Tick

SpecInterleaved == Init /\ [][NextInterleaved]_vars

\* ------------------------------------------------ vocabulary of the claims

\* Call c is over and was a call of op.
Done(c, op) == calls[c].pc = "done" /\ calls[c].op = op

\* The id of the task card call c asks for (a pair that may have no card).
Requested(c) == <<calls[c].trainee_id, calls[c].technology_id>>

\* The task card call c asks for, as the stores held it when c was made.
PreCard(c) ==
    IF Requested(c) \in CardIds THEN calls[c].pre_cards[Requested(c)] ELSE None

\* The open session logs of the trainee of call c when c was made.
PreOpen(c) == OpenLogsOf(calls[c].pre_logs, calls[c].trainee_id)

\* Call c performed no write that stayed.
NoWrite(c) == logs = calls[c].pre_logs /\ cards = calls[c].pre_cards

\* ------------------------------------------------------------------ claims

\* C1: in every reachable state, under every interleaving of the repository
\* calls of concurrent start_learning_technology calls, each trainee has at
\* most one session log with end_time = None over all of their task cards.
C1_AtMostOneOpenLogPerTrainee ==
    \A t \in Trainees : Cardinality(OpenLogsOf(logs, t)) <= 1

\* C2: two start_learning_technology calls of the same trainee that ran
\* concurrently (one was made while the other was in flight) never both
\* return an updated task card.
C2_ConcurrentStartsNeverBothSucceed ==
    \A c, d \in Calls :
        ( /\ c # d
          /\ Done(c, "start") /\ Done(d, "start")
          /\ calls[c].trainee_id = calls[d].trainee_id
          /\ d \in calls[c].overlap )
        => ~(calls[c].result = OK /\ calls[d].result = OK)

\* C3: the two writes of start_learning_technology are applied together: in
\* no state is an open session log persisted while its task card is not
\* IN_PROGRESS, and in no state is a task card IN_PROGRESS while no session
\* log of it is persisted.
C3_StartWritesAppliedTogether ==
    /\ \A l \in logs :
          l.end_time = NoTime =>
              /\ cards[l.trainee_technology_state_id] # None
              /\ The(cards[l.trainee_technology_state_id]).state = IN_PROGRESS
    /\ \A id \in CardIds :
          (cards[id] # None /\ The(cards[id]).state = IN_PROGRESS)
              => list_for_state(logs, id) # {}

\* C4: a start_learning_technology call made while the trainee has no open
\* session log and the requested task card is PLANNED or READY_FOR_REVIEW
\* succeeds; afterwards the card is IN_PROGRESS and exactly one session log
\* has been added, owned by the card, started at the time of the call, open.
C4_StartSucceeds ==
    \A c \in Calls :
        ( /\ Done(c, "start")
          /\ PreOpen(c) = {}
          /\ PreCard(c) # None
          /\ The(PreCard(c)).state \in {PLANNED, READY_FOR_REVIEW} )
        => /\ calls[c].result = OK
           /\ The(cards[Requested(c)]).state = IN_PROGRESS
           /\ \E l \in logs :
                 /\ l \notin calls[c].pre_logs
                 /\ logs = calls[c].pre_logs \cup {l}
                 /\ l.trainee_technology_state_id = The(PreCard(c)).id
                 /\ l.start_time = calls[c].pre_now
                 /\ l.end_time = NoTime

\* C4 witness: a start has succeeded on a card that was READY_FOR_REVIEW.
C4_Witness ==
    \E c \in Calls :
        /\ Done(c, "start") /\ calls[c].result = OK
        /\ PreOpen(c) = {}
        /\ PreCard(c) # None
        /\ The(PreCard(c)).state = READY_FOR_REVIEW
        /\ calls[c].pre_logs # {}

\* C5 as stated: a start_learning_technology call on a task card that is
\* IN_PROGRESS or REVIEW_SCHEDULED always fails with
\* InvalidLearningStateTransitionError.
C5_Original ==
    \A c \in Calls :
        ( /\ Done(c, "start")
          /\ PreCard(c) # None
          /\ The(PreCard(c)).state \in {IN_PROGRESS, REVIEW_SCHEDULED} )
        => calls[c].result = InvalidLearningStateTransitionError

\* C5 amended: a start_learning_technology call on a task card that is
\* IN_PROGRESS or REVIEW_SCHEDULED always fails: with
\* InvalidLearningStateTransitionError when the trainee has no open session
\* log, with LearningSessionAlreadyInProgressError when the trainee has one.
C5_StartOnStartedOrScheduledFails ==
    \A c \in Calls :
        ( /\ Done(c, "start")
          /\ PreCard(c) # None
          /\ The(PreCard(c)).state \in {IN_PROGRESS, REVIEW_SCHEDULED} )
        => calls[c].result =
              IF PreOpen(c) = {}
              THEN InvalidLearningStateTransitionError
              ELSE LearningSessionAlreadyInProgressError

\* C5 witness: a start on an IN_PROGRESS card of a trainee with no open
\* session log has failed with InvalidLearningStateTransitionError.
C5_Witness ==
    \E c \in Calls :
        /\ Done(c, "start")
        /\ PreCard(c) # None
        /\ The(PreCard(c)).state = IN_PROGRESS
        /\ PreOpen(c) = {}
        /\ calls[c].result = InvalidLearningStateTransitionError

\* C6: a start_learning_technology call made while the trainee has an open
\* session log fails with LearningSessionAlreadyInProgressError, whether or
\* not the requested task card exists and whatever its state.
C6_OpenSessionCheckFirst ==
    \A c \in Calls :
        (Done(c, "start") /\ PreOpen(c) # {})
        => calls[c].result = LearningSessionAlreadyInProgressError

\* C6 witness: a start for a pair without a task card, by a trainee with an
\* open session log, has failed with LearningSessionAlreadyInProgressError.
C6_Witness ==
    \E c \in Calls :
        /\ Done(c, "start")
        /\ PreOpen(c) # {}
        /\ PreCard(c) = None
        /\ calls[c].result = LearningSessionAlreadyInProgressError

\* C7: a start_learning_technology call for a pair that has no task card,
\* made while the trainee has no open session log, fails with
\* TraineeTechnologyStateNotFoundError and creates no session log and no
\* task card.
C7_StartWithoutCardNotFound ==
    \A c \in Calls :
        (Done(c, "start") /\ PreOpen(c) = {} /\ PreCard(c) = None)
        => /\ calls[c].result = TraineeTechnologyStateNotFoundError
           /\ NoWrite(c)

\* C7 witness: such a call has been made by a trainee who has another card.
C7_Witness ==
    \E c \in Calls :
        /\ Done(c, "start") /\ PreOpen(c) = {} /\ PreCard(c) = None
        /\ \E id \in CardIds :
              /\ id[1] = calls[c].trainee_id
              /\ calls[c].pre_cards[id] # None
        /\ calls[c].result = TraineeTechnologyStateNotFoundError

\* C8 as stated: a stop_learning_technology call made while the trainee has
\* no open session log always fails with NoActiveLearningSessionError,
\* whatever the state of the requested task card.
C8_Original ==
    \A c \in Calls :
        (Done(c, "stop") /\ PreOpen(c) = {})
        => calls[c].result = NoActiveLearningSessionError

\* C8 amended: a stop_learning_technology call made while the trainee has no
\* open session log always fails: with TraineeTechnologyStateNotFoundError
\* when the task card does not exist, with
\* InvalidLearningStateTransitionError when the card is not IN_PROGRESS, and
\* with NoActiveLearningSessionError when the card is IN_PROGRESS.
C8_StopWithoutOpenSessionFails ==
    \A c \in Calls :
        (Done(c, "stop") /\ PreOpen(c) = {})
        => calls[c].result =
              IF PreCard(c) = None
              THEN TraineeTechnologyStateNotFoundError
              ELSE IF The(PreCard(c)).state # IN_PROGRESS
              THEN InvalidLearningStateTransitionError
              ELSE NoActiveLearningSessionError

\* C8 witness: a stop on an IN_PROGRESS card of a trainee with no open
\* session log has failed with NoActiveLearningSessionError.
C8_Witness ==
    \E c \in Calls :
        /\ Done(c, "stop") /\ PreOpen(c) = {}
        /\ PreCard(c) # None
        /\ The(PreCard(c)).state = IN_PROGRESS
        /\ calls[c].result = NoActiveLearningSessionError

\* C9: a stop_learning_technology call made while the task card is
\* IN_PROGRESS and the trainee has exactly one open session log, owned by
\* that card, succeeds; afterwards the card is READY_FOR_REVIEW, that log has
\* end_time = the time of the call, end_time >= start_time, nothing else of
\* the logs has changed, and the trainee has no open session log.
C9_StopSucceeds ==
    \A c \in Calls :
        ( /\ Done(c, "stop")
          /\ PreCard(c) # None
          /\ The(PreCard(c)).state = IN_PROGRESS
          /\ \E l \in PreOpen(c) :
                /\ PreOpen(c) = {l}
                /\ l.trainee_technology_state_id = The(PreCard(c)).id )
        => /\ calls[c].result = OK
           /\ The(cards[Requested(c)]).state = READY_FOR_REVIEW
           /\ \E l \in PreOpen(c) :
                 /\ logs = (calls[c].pre_logs \ {l}) \cup
                              {[l EXCEPT !.end_time = calls[c].pre_now]}
                 /\ calls[c].pre_now >= l.start_time
           /\ OpenLogsOf(logs, calls[c].trainee_id) = {}

\* C9 witness: a stop has succeeded and closed a session that lasted.
C9_Witness ==
    \E c \in Calls :
        /\ Done(c, "stop") /\ calls[c].result = OK
        /\ \E l \in PreOpen(c) : calls[c].pre_now > l.start_time
        /\ \E l \in logs : l.end_time > l.start_time

C11_StopSessionMismatch ==
    \A c \in Calls :
        ( /\ Done(c, "stop")
          /\ PreCard(c) # None
          /\ The(PreCard(c)).state = IN_PROGRESS
          /\ PreOpen(c) # {}
          /\ \A l \in PreOpen(c) :
                l.trainee_technology_state_id # The(PreCard(c)).id )
        => /\ calls[c].result = LearningSessionAlreadyInProgressError
           /\ NoWrite(c)

\* C11 witness: such a stop has failed with the session-conflict error; the
\* open log belongs to another card of the trainee, which is IN_PROGRESS too.
C11_Witness ==
    \E c \in Calls :
        /\ Done(c, "stop")
        /\ PreCard(c) # None
        /\ The(PreCard(c)).state = IN_PROGRESS
        /\ \E l \in PreOpen(c) :
              /\ l.trainee_technology_state_id # The(PreCard(c)).id
              /\ The(cards[l.trainee_technology_state_id]).state = IN_PROGRESS
        /\ calls[c].result = LearningSessionAlreadyInProgressError

\* The terminal learning states.
TerminalStates == {APPROVED, CANCELLED}

\* The session logs owned by task card id.
LogsOwnedBy(logstore, id) ==
    {l \in logstore : l.trainee_technology_state_id = id}

\* C12: APPROVED and CANCELLED are absorbing: no step of a start, stop or
\* dashboard call, of any trainee, changes the state of a task card that is
\* APPROVED or CANCELLED, or creates a session log owned by it.
C12_TerminalAbsorbing ==
    [][\A id \in CardIds :
          (cards[id] # None /\ The(cards[id]).state \in TerminalStates)
          => /\ cards'[id] = cards[id]
             /\ LogsOwnedBy(logs', id) \subseteq LogsOwnedBy(logs, id)]_vars

\* A start on a terminal card, by a trainee with no open session, has
\* completed.
C12_Witness ==
    \E c \in Calls :
        /\ Done(c, "start")
        /\ PreCard(c) # None
        /\ The(PreCard(c)).state \in TerminalStates
        /\ PreOpen(c) = {}
        /\ cards[Requested(c)] = PreCard(c)

\* C13: a start_learning_technology or stop_learning_technology call on a
\* task card that is already APPROVED is rejected with
\* TechnologyAlreadyApprovedError, not with another error kind.
C13_ApprovedRejectedWithDedicatedError ==
    \A c \in Calls :
        ( /\ calls[c].pc = "done"
          /\ calls[c].op \in {"start", "stop"}
          /\ PreCard(c) # None
          /\ The(PreCard(c)).state = APPROVED )
        => calls[c].result = TechnologyAlreadyApprovedError

\* The task cards of the trainee of call c, as the stores held them when c
\* was made.
PreCardsOfTrainee(c) ==
    {The(calls[c].pre_cards[id]) :
        id \in {i \in CardIds :
                   /\ calls[c].pre_cards[i] # None
                   /\ The(calls[c].pre_cards[i]).trainee_id
                          = calls[c].trainee_id}}

\* C14: every get_trainee_dashboard call succeeds, returns exactly the task
\* cards whose trainee_id is the given trainee (none when the trainee has
\* none), and leaves every task card and every session log unchanged.
C14_DashboardReadOnlyTotal ==
    \A c \in Calls :
        Done(c, "dashboard")
        => /\ calls[c].result = OK
           /\ calls[c].dashboard = PreCardsOfTrainee(c)
           /\ NoWrite(c)

\* A dashboard call has returned the cards of a trainee, one of them in
\* progress, while another trainee has a card too.
C14_Witness ==
    \E c \in Calls :
        /\ Done(c, "dashboard")
        /\ \E s \in calls[c].dashboard : s.state = IN_PROGRESS
        /\ \E id \in CardIds :
              /\ cards[id] # None
              /\ The(cards[id]).trainee_id # calls[c].trainee_id

\* A dashboard call of a trainee without task cards has returned.
C14_WitnessEmpty ==
    \E c \in Calls :
        /\ Done(c, "dashboard")
        /\ PreCardsOfTrainee(c) = {}
        /\ calls[c].result = OK

\* The sum of end_time - start_time over a set of closed session logs.
RECURSIVE SumOfDurations(_)
SumOfDurations(closed) ==
    IF closed = {}
    THEN 0
    ELSE LET l == CHOOSE x \in closed : TRUE
         IN  (l.end_time - l.start_time) + SumOfDurations(closed \ {l})

\* The total learning time of task card id: the sum over its closed logs.
TotalLearningTime(logstore, id) ==
    SumOfDurations({l \in LogsOwnedBy(logstore, id) : l.end_time # NoTime})

\* C15: along every sequence of start and stop operations, the total learning
\* time of a task card never decreases, and a step changes it only by closing
\* a log of that card: creating an open log, or an open log being there,
\* leaves it as it was.
C15_TotalLearningTimeMonotone ==
    [][logs' # logs =>
          \A id \in CardIds :
             /\ TotalLearningTime(logs', id) >= TotalLearningTime(logs, id)
             /\ TotalLearningTime(logs', id) # TotalLearningTime(logs, id)
                => \E l \in LogsOwnedBy(logs, id),
                      m \in LogsOwnedBy(logs', id) :
                      /\ m.id = l.id
                      /\ l.end_time = NoTime
                      /\ m.end_time # NoTime]_vars

\* A task card has learning time from a closed log and an open log besides.
C15_Witness ==
    \E id \in CardIds :
        /\ TotalLearningTime(logs, id) > 0
        /\ \E l \in LogsOwnedBy(logs, id) : l.end_time = NoTime

\* The open session logs trainee t owns in a log store.
OwnOpen(logstore, t) ==
    {l \in logstore :
        l.end_time = NoTime /\ l.trainee_technology_state_id[1] = t}

\* The outcome the records of the trainee of call c alone give to c: the
\* requested card and the trainee's own open logs, as they were when c was
\* made.
OutcomeFromOwnRecords(c) ==
    LET own == OwnOpen(calls[c].pre_logs, calls[c].trainee_id)
        card == PreCard(c)
    IN  IF calls[c].op = "start"
        THEN IF own # {} THEN LearningSessionAlreadyInProgressError
             ELSE IF card = None THEN TraineeTechnologyStateNotFoundError
             ELSE IF The(card).state \notin {PLANNED, READY_FOR_REVIEW}
                  THEN InvalidLearningStateTransitionError
             ELSE OK
        ELSE IF card = None THEN TraineeTechnologyStateNotFoundError
             ELSE IF The(card).state # IN_PROGRESS
                  THEN InvalidLearningStateTransitionError
             ELSE IF own = {} THEN NoActiveLearningSessionError
             ELSE IF \A l \in own :
                        l.trainee_technology_state_id # The(card).id
                  THEN LearningSessionAlreadyInProgressError
             ELSE OK

\* The task cards and session logs of the trainees other than t.
CardsOfOthers(store, t) == [id \in {i \in CardIds : i[1] # t} |-> store[id]]
LogsOfOthers(logstore, t) ==
    {l \in logstore : l.trainee_technology_state_id[1] # t}

\* The trainee of the call in slot c that takes the step.
Stepping(c) ==
    IF calls[c].pc = "idle" THEN calls'[c].trainee_id ELSE calls[c].trainee_id

\* C16: in every interleaving of the calls of two trainees, the outcome of a
\* start or stop call of a trainee is the one given by that trainee's own task
\* card and open session alone, whatever the other trainee holds or does, and
\* no step of the call changes a task card or a session log of the other
\* trainee.
C16_TraineesIndependent ==
    /\ [](\A c \in Calls :
            (calls[c].pc = "done" /\ calls[c].op \in {"start", "stop"})
            => calls[c].result = OutcomeFromOwnRecords(c))
    /\ [][\A c \in Calls :
            calls'[c].pc # calls[c].pc
            => /\ CardsOfOthers(cards', Stepping(c))
                      = CardsOfOthers(cards, Stepping(c))
               /\ LogsOfOthers(logs', Stepping(c))
                      = LogsOfOthers(logs, Stepping(c))]_vars

\* A start of one trainee has succeeded, made while the other trainee had an
\* open session and a call in progress.
C16_Witness ==
    \E c \in Calls :
        /\ Done(c, "start")
        /\ calls[c].result = OK
        /\ calls[c].overlap # {}
        /\ \E l \in calls[c].pre_logs :
              /\ l.end_time = NoTime
              /\ l.trainee_technology_state_id[1] # calls[c].trainee_id
        /\ \E l \in logs :
              /\ l.end_time = NoTime
              /\ l.trainee_technology_state_id[1] = calls[c].trainee_id

\* C17: every InvalidLearningStateTransitionError raised by the service
\* carries as from_state the state of the requested task card as the raising
\* step reads it from the store, and as to_state IN_PROGRESS when
\* start_learning_technology raises it and READY_FOR_REVIEW when
\* stop_learning_technology does.
C17_InvalidTransitionCarriesStates ==
    [][\A c \in Calls :
          ( /\ calls[c].pc # "done"
            /\ calls'[c].pc = "done"
            /\ calls'[c].result = InvalidLearningStateTransitionError )
          => LET id == <<calls'[c].trainee_id, calls'[c].technology_id>>
             IN  /\ id \in CardIds
                 /\ cards[id] # None
                 /\ calls'[c].from_state = The(cards[id]).state
                 /\ calls'[c].to_state =
                        IF calls'[c].op = "start" THEN IN_PROGRESS
                        ELSE READY_FOR_REVIEW]_vars

\* A stop has been refused on a task card that an earlier stop left in
\* READY_FOR_REVIEW.
C17_Witness ==
    \E c \in Calls :
        /\ Done(c, "stop")
        /\ calls[c].result = InvalidLearningStateTransitionError
        /\ calls[c].from_state = READY_FOR_REVIEW
        /\ calls[c].to_state = READY_FOR_REVIEW

\* C20: the construction of a review submission whose questions_correct
\* exceeds its questions_asked ends in a validation error and leaves every
\* task card and session log as it was; of the submissions whose counts pass
\* the field constraints, validate_questions refuses exactly those with both
\* counts present and questions_correct > questions_asked, and accepts all
\* others, those with an absent count among them.
C20_ValidateQuestions ==
    \A c \in Calls :
        Done(c, "submit_review_dto")
        => LET asked == calls[c].questions_asked
               correct == calls[c].questions_correct
               exceeds == /\ asked # None
                          /\ correct # None
                          /\ The(correct) > The(asked)
           IN  /\ NoWrite(c)
               /\ exceeds => calls[c].result = ValidationError
               /\ ( (asked = None \/ The(asked) >= 0)
                    /\ (correct = None \/ The(correct) >= 0) )
                  => (calls[c].result = ValidationError <=> exceeds)

\* A submission with more correct answers than questions has been refused
\* while a session of a trainee was open.
C20_Witness ==
    \E c \in Calls :
        /\ Done(c, "submit_review_dto")
        /\ calls[c].questions_asked = Some(1)
        /\ calls[c].questions_correct = Some(2)
        /\ calls[c].result = ValidationError
        /\ \E l \in logs : l.end_time = NoTime

\* A submission without questions_asked has been accepted.
C20_WitnessAbsent ==
    \E c \in Calls :
        /\ Done(c, "submit_review_dto")
        /\ calls[c].questions_asked = None
        /\ calls[c].questions_correct = Some(2)
        /\ calls[c].result = OK

\* No call is part-way through its execution.
NoCallRunning == \A c \in Calls : ~InFlight(c)

\* C21: in every state in which no call is part-way through its execution,
\* reached by interleaved start and stop calls of one trainee, a task card
\* is IN_PROGRESS if and only if exactly one open session log is owned by it.
C21_InProgressIffOneOpenLog ==
    NoCallRunning
    => \A id \in CardIds :
          cards[id] # None
          => ( The(cards[id]).state = IN_PROGRESS
               <=> Cardinality({l \in LogsOwnedBy(logs, id) :
                                   l.end_time = NoTime}) = 1 )

\* The errors of the domain that start and stop raise themselves.
DomainErrors ==
    {LearningSessionAlreadyInProgressError, TraineeTechnologyStateNotFoundError,
     InvalidLearningStateTransitionError, NoActiveLearningSessionError}

\* C22: a start_learning_technology or stop_learning_technology call that
\* ends in a domain error has performed no write: the task cards and the
\* session logs are as they were when the call was made.
C22_DomainErrorWritesNothing ==
    \A c \in Calls :
        ( /\ calls[c].pc = "done"
          /\ calls[c].op \in {"start", "stop"}
          /\ calls[c].result \in DomainErrors )
        => NoWrite(c)

\* A start has been refused because of an open session, which is still open
\* on its IN_PROGRESS card, ready to be stopped.
C22_Witness ==
    \E c \in Calls :
        /\ Done(c, "start")
        /\ calls[c].result = LearningSessionAlreadyInProgressError
        /\ \E l \in logs :
              /\ l.end_time = NoTime
              /\ cards[l.trainee_technology_state_id] # None
              /\ The(cards[l.trainee_technology_state_id]).state = IN_PROGRESS

\* The task cards as they were when call c was made, the requested one now in
\* the given state and otherwise as it was.
PreCardsWithState(c, state) ==
    [calls[c].pre_cards EXCEPT
        ![Requested(c)] = Some([The(PreCard(c)) EXCEPT !.state = state])]

\* C23: a successful start changes only the state field of the requested task
\* card and adds exactly one session log, a successful stop changes only that
\* state field and sets the end_time of exactly one session log: the other
\* fields of the card, every other task card and every other session log are
\* as they were.
C23_SuccessChangesOneCardOneLog ==
    \A c \in Calls :
        /\ (Done(c, "start") /\ calls[c].result = OK)
           => /\ PreCard(c) # None
              /\ cards = PreCardsWithState(c, IN_PROGRESS)
              /\ \E l \in logs :
                    /\ \A p \in calls[c].pre_logs : p.id # l.id
                    /\ logs = calls[c].pre_logs \cup {l}
        /\ (Done(c, "stop") /\ calls[c].result = OK)
           => /\ PreCard(c) # None
              /\ cards = PreCardsWithState(c, READY_FOR_REVIEW)
              /\ \E p \in calls[c].pre_logs :
                    /\ p.end_time = NoTime
                    /\ \E t \in 0..MaxTime :
                          logs = (calls[c].pre_logs \ {p})
                                     \cup {[p EXCEPT !.end_time = t]}

\* A stop has succeeded, after time has passed, while another session log,
\* closed, and other task cards were in the stores.
C23_Witness ==
    \E c \in Calls :
        /\ Done(c, "stop")
        /\ calls[c].result = OK
        /\ calls[c].pre_now > 0
        /\ \E p \in calls[c].pre_logs : p.end_time # NoTime
        /\ \E id \in CardIds : id # Requested(c) /\ cards[id] # None

\* C24: in every interleaving, two concurrent stop_learning_technology calls
\* of one trainee included, a session log that has an end_time stays in the
\* store as it is (same end_time, start_time and owning card), and a stop
\* closes only a log that is still open, so that each session is closed by
\* at most one stop.
C24_ClosedLogsAppendOnly ==
    [][/\ \A l \in logs : l.end_time # NoTime => l \in logs'
       /\ \A c \in Calls :
             ( /\ calls[c].pc = "stop_update_log"
               /\ calls'[c].pc = "stop_update_state" )
             => \E l \in logs : /\ l.id = The(calls[c].log).id
                                /\ l.end_time = NoTime]_vars

\* The checks of a start_learning_technology call made now pass: the call
\* reaches its writes.
StartChecksPass(trainee_id, technology_id) ==
    \E active_session \in find_active_session_by_trainee_id(logs, trainee_id) :
        LET checked == StartCheckActive(
                           Invoked("start", trainee_id, technology_id, FALSE),
                           active_session)
        IN  /\ checked.pc = "start_find_state"
            /\ StartCheckState(checked,
                               find_by_trainee_and_technology(
                                   cards, trainee_id, technology_id),
                               next_log_id, now).pc = "start_add_log"

\* The checks of a stop_learning_technology call made now pass.
StopChecksPass(trainee_id, technology_id) ==
    LET checked == StopCheckState(
                       Invoked("stop", trainee_id, technology_id, FALSE),
                       find_by_trainee_and_technology(
                           cards, trainee_id, technology_id))
    IN  /\ checked.pc = "stop_find_active"
        /\ \E active_session \in
                 find_active_session_by_trainee_id(logs, trainee_id) :
              StopCheckActive(checked, active_session, now).pc
                  = "stop_update_log"

\* C25: in every state in which no call is in progress, states left by a
\* failed second write of a start or stop included, a trainee with an open
\* session log can stop it on the card that owns it, a trainee without one
\* can start each of their cards that is PLANNED or READY_FOR_REVIEW, and
\* on no IN_PROGRESS card are both start and stop refused.
C25_NoTraineeStuck ==
    Quiet
    => /\ \A l \in logs :
             l.end_time = NoTime
             => StopChecksPass(l.trainee_technology_state_id[1],
                               l.trainee_technology_state_id[2])
       /\ \A id \in CardIds :
             ( /\ cards[id] # None
               /\ The(cards[id]).state \in {PLANNED, READY_FOR_REVIEW}
               /\ \A l \in logs :
                     l.end_time = NoTime
                     => l.trainee_technology_state_id[1] # id[1] )
             => StartChecksPass(id[1], id[2])
       /\ \A id \in CardIds :
             (cards[id] # None /\ The(cards[id]).state = IN_PROGRESS)
             => StartChecksPass(id[1], id[2]) \/ StopChecksPass(id[1], id[2])

\* The moves of a task card that start and stop make.
ServiceEdges ==
    {<<PLANNED, IN_PROGRESS>>, <<READY_FOR_REVIEW, IN_PROGRESS>>,
     <<IN_PROGRESS, READY_FOR_REVIEW>>}

\* C26: every step that changes a task card changes its state along PLANNED ->
\* IN_PROGRESS, READY_FOR_REVIEW -> IN_PROGRESS or IN_PROGRESS ->
\* READY_FOR_REVIEW; no card is created or removed, none enters
\* REVIEW_SCHEDULED, APPROVED or CANCELLED, and none returns to PLANNED.
C26_OnlyThreeEdges ==
    [][\A id \in CardIds :
          cards'[id] # cards[id]
          => /\ cards[id] # None
             /\ cards'[id] # None
             /\ <<The(cards[id]).state, The(cards'[id]).state>>
                    \in ServiceEdges]_vars

\* The card (t1, go), PLANNED at the beginning, is IN_PROGRESS for the second
\* time: it owns a closed log and an open one.
C26_Witness ==
    /\ cards[<<"t1", "go">>] # None
    /\ The(cards[<<"t1", "go">>]).state = IN_PROGRESS
    /\ \E l, m \in LogsOwnedBy(logs, <<"t1", "go">>) :
          l.end_time # NoTime /\ m.end_time = NoTime

\* C27: when the calls are made one at a time and every write is applied, no
\* stop_learning_technology call ends in the session-mismatch error or in
\* NoActiveLearningSessionError: each ends in success, in
\* TraineeTechnologyStateNotFoundError or in
\* InvalidLearningStateTransitionError.
C27_NoMismatchNoMissingSession ==
    \A c \in Calls :
        Done(c, "stop")
        => calls[c].result \in {OK, TraineeTechnologyStateNotFoundError,
                                InvalidLearningStateTransitionError}

\* A stop has succeeded on one card of a trainee while their other card,
\* stopped before, was READY_FOR_REVIEW.
C27_Witness ==
    \E c \in Calls :
        /\ Done(c, "stop")
        /\ calls[c].result = OK
        /\ \E id \in CardIds :
              /\ id # Requested(c)
              /\ id[1] = calls[c].trainee_id
              /\ cards[id] # None
              /\ The(cards[id]).state = READY_FOR_REVIEW
              /\ LogsOwnedBy(logs, id) # {}

\* C28: a stop_learning_technology call for a pair that has no task card
\* fails with TraineeTechnologyStateNotFoundError and closes no session log,
\* whether or not the trainee has an open session on another card.
C28_StopWithoutCardNotFound ==
    \A c \in Calls :
        (Done(c, "stop") /\ PreCard(c) = None)
        => /\ calls[c].result = TraineeTechnologyStateNotFoundError
           /\ NoWrite(c)

\* Such a stop has failed while the trainee had an open session on their
\* other card.
C28_Witness ==
    \E c \in Calls :
        /\ Done(c, "stop")
        /\ PreCard(c) = None
        /\ PreOpen(c) # {}
        /\ calls[c].result = TraineeTechnologyStateNotFoundError
        /\ \E l \in logs : l.end_time = NoTime

\* Such a stop has failed while the trainee had no open session.
C28_WitnessNoSession ==
    \E c \in Calls :
        /\ Done(c, "stop")
        /\ PreCard(c) = None
        /\ PreOpen(c) = {}
        /\ calls[c].result = TraineeTechnologyStateNotFoundError

\* Session log l is closed and ends no later than session log m starts.
EndsBefore(l, m) == l.end_time # NoTime /\ l.end_time <= m.start_time

\* C29: after every sequence of start and stop calls, every closed session
\* log has end_time >= start_time, and of any two session logs of one
\* trainee, on the same card or not, one ends no later than the other
\* starts.
C29_IntervalsDoNotOverlap ==
    /\ \A l \in logs : l.end_time # NoTime => l.end_time >= l.start_time
    /\ \A l, m \in logs :
          ( /\ l # m
            /\ l.trainee_technology_state_id[1]
                   = m.trainee_technology_state_id[1] )
          => EndsBefore(l, m) \/ EndsBefore(m, l)

\* A trainee has two closed session logs on different cards, each of them
\* longer than nothing.
C29_Witness ==
    \E l, m \in logs :
        /\ l.trainee_technology_state_id # m.trainee_technology_state_id
        /\ l.trainee_technology_state_id[1] = m.trainee_technology_state_id[1]
        /\ l.end_time > l.start_time
        /\ m.start_time >= l.end_time
        /\ m.end_time > m.start_time

\* The closed session logs of task card id.
ClosedLogsOf(logstore, id) ==
    {l \in LogsOwnedBy(logstore, id) : l.end_time # NoTime}

\* C30: after every sequence of calls made one at a time, the number of
\* session logs a task card owns equals the number of successful
\* start_learning_technology calls on it, the number of its closed logs
\* equals the number of successful stop_learning_technology calls on it, and
\* the two numbers differ by at most one; the number of logs of a card never
\* decreases.
C30_LogCountsMatchCalls ==
    /\ [](NoCallRunning
          => \A id \in CardIds :
                /\ Cardinality(LogsOwnedBy(logs, id)) = successes[id].start
                /\ Cardinality(ClosedLogsOf(logs, id)) = successes[id].stop
                /\ successes[id].start - successes[id].stop \in {0, 1})
    /\ [][\A id \in CardIds :
             Cardinality(LogsOwnedBy(logs', id))
                 >= Cardinality(LogsOwnedBy(logs, id))]_vars

====
